---- MODULE Spec2Model ----
(***************************************************************************)
(* picpocket CLIP classifier worker (src/python/classifier.py).            *)
(*                                                                         *)
(* One request document is read from stdin, JSON messages are printed to   *)
(* stdout one per line, and the process exits.  The external collaborators *)
(* (json parsing, model loading, text embedding, image decoding, image     *)
(* embedding) are the environment: each call either returns or raises, and *)
(* an exception carries a message string that may be empty.                *)
(*                                                                         *)
(* Representation.                                                         *)
(*  - Python None is the empty tuple, a present value v is <<v>>.          *)
(*  - The categories mapping is the sequence of its prompt lists in        *)
(*    declaration order; a category's name is its position.                *)
(*  - An ordered dict is a sequence of [cat, ...] records in insertion     *)
(*    order.                                                               *)
(*  - Row indices are 1-based (Python's are 0-based).                      *)
(*  - Similarities and scores are fixed-point integers: cosine 1.0 is      *)
(*    Unit, and Unit is divisible by every possible k, so the mean of k    *)
(*    values is exact.                                                     *)
(*  - An f-string is the tuple of its pieces.                              *)
(***************************************************************************)
EXTENDS Integers, Sequences, FiniteSets, TLC

VARIABLES
    stdin,              \* the request document on the input channel
    caps,               \* accelerator capability flags of the host
    pc,                 \* position of the process
    out,                \* messages printed to stdout, in order
    exitCode,           \* None while running, <<code>> once exited
    exc,                \* the request-level failure that occurred, "none" if none
    device,             \* handle_classify: device
    category_indices,   \* handle_classify: category_indices
    idx,                \* handle_classify: number of images already recorded
    results,            \* handle_classify: results
    errors,             \* handle_classify: errors
    all_similarities,   \* classify_image: all_similarities of the last call
    outcome,            \* the tuple the last classify_image call returned
    raised              \* per recorded image: did decode or inference raise

vars == <<stdin, caps, pc, out, exitCode, exc, device, category_indices, idx,
          results, errors, all_similarities, outcome, raised>>

----------------------------------------------------------------------------
(* Bounds of the explored inputs *)

MaxImages == 2
MaxCats == 2
MaxPrompts == 2
MaxTopK == 3

(* Program constants *)

DefaultTopK == 3

----------------------------------------------------------------------------
(* Values *)

None == <<>>

Some(v) == <<v>>

Get(opt, default) == IF opt = None THEN default ELSE opt[1]

Min(a, b) == IF a < b THEN a ELSE b

RECURSIVE Fact(_)
Fact(n) == IF n <= 1 THEN 1 ELSE n * Fact(n - 1)

\* fixed-point representation of cosine similarity 1.0
Unit == Fact(MaxPrompts)

SimVals == {0 - Unit, 0, Unit}

Paths == {"a.jpg", "b.jpg"}

\* str(e) of the exceptions the collaborators raise
ExcMsgs == {"", "cannot identify image file"}

SeqsUpTo(S, n) == UNION {[1..m -> S] : m \in 0..n}

PromptLists == SeqsUpTo({"prompt"}, MaxPrompts)

CategoryMaps == SeqsUpTo(PromptLists, MaxCats)

ImageLists == SeqsUpTo(Paths, MaxImages)

TopKs == {None} \cup {Some(k) : k \in 1..MaxTopK}

\* What lines 203-204 are given, in two parts.
\* text: the bytes of stdin and the literals they spell
\*   "plain"       bytes valid in the encoding of stdin, no literal outside
\*                 the JSON grammar
\*   "lenient"     a literal that is not JSON but that json.loads accepts
\*                 (NaN, Infinity, -Infinity), in a place the request
\*                 handlers do not read
\*   "undecodable" bytes that are not valid in the encoding of stdin, in a
\*                 place the request handlers do not read: with the strict
\*                 error handler sys.stdin.read raises UnicodeDecodeError,
\*                 with surrogateescape the text is read and given to
\*                 json.loads
\* kind: what json.loads does on the text that was read (below)
TextForms == {"plain", "lenient", "undecodable"}

\* classify requests of the protocol runs: topK absent (the default) or 1
ClassifyDocs ==
    [text : {"plain"}, kind : {"object"}, command : {None, Some("classify")},
     categories : CategoryMaps, topK : {None, Some(1)}, images : ImageLists]

\* classify requests of the scoring runs: one image, every topK
ScoreDocs ==
    [text : {"plain"}, kind : {"object"}, command : {Some("classify")},
     categories : CategoryMaps, topK : TopKs, images : [1..1 -> {"a.jpg"}]]

OtherDocs ==
    [text : {"plain"}, kind : {"object"}, command : {Some("check"), Some("bogus")},
     categories : {<<>>}, topK : {None}, images : {<<>>}]

\* Texts that are not well-formed JSON and from which lines 203-204 still
\* return a request object: a lenient literal as a member value, or an
\* undecodable byte inside a string read with surrogateescape
AcceptedNonJsonDocs ==
    [text : TextForms \ {"plain"}, kind : {"object"},
     command : {None, Some("check"), Some("bogus")},
     categories : {<<>>}, topK : {None}, images : {<<>>, <<"a.jpg">>}]

\* Texts on which json.loads returns no value, by the exception it raises:
\*   "malformed"   JSONDecodeError
\*   "deep"        unclosed brackets nested beyond the recursion limit:
\*                 RecursionError
\*   "huge_int"    an unclosed array holding a number of more digits than
\*                 the int conversion limit: ValueError
NonJsonKinds == {"malformed", "deep", "huge_int"}

\* "nonobject": json.loads returns a value that is no dict (a list, a
\* number; with a lenient text, NaN alone)
BadDocs ==
    [text : TextForms, kind : NonJsonKinds \cup {"nonobject"}, command : {None},
     categories : {<<>>}, topK : {None}, images : {<<>>}]

\* str(e) of the JSONDecodeError
JsonErrorMsgs ==
    {"Expecting value: line 1 column 1 (char 0)",
     "Extra data: line 1 column 4 (char 3)",
     "Unexpected UTF-8 BOM (decode using utf-8-sig): line 1 column 1 (char 0)"}

Documents == ClassifyDocs \cup OtherDocs \cup AcceptedNonJsonDocs \cup BadDocs

Capabilities == [mps : BOOLEAN, cuda : BOOLEAN]

\* __version__ strings of the installed torch, transformers and PIL
Versions == {"0.0+double", "2.1.0"}

----------------------------------------------------------------------------
(* Output *)

send_response(o, data) == Append(o, data)

\* fault variant: 0-based current
send_progress_off_by_one(o, current, total) ==
    send_response(o, [type |-> "progress", current |-> current - 1, total |-> total])

send_progress(o, current, total) ==
    send_response(o, [type |-> "progress", current |-> current, total |-> total])

get_device(c) ==
    IF c.mps THEN "mps" ELSE IF c.cuda THEN "cuda" ELSE "cpu"

----------------------------------------------------------------------------
(* precompute_text_features: the prompt index *)

\* one entry per prompt, in flattening order: the category it belongs to
RECURSIVE FlattenCategories(_, _)
FlattenCategories(categories, n) ==
    IF n = 0 THEN <<>>
    ELSE FlattenCategories(categories, n - 1)
         \o [j \in 1..Len(categories[n]) |-> n]

\* position of key cat in ordered dict d, 0 if absent
KeyPos(d, cat) ==
    IF \E i \in 1..Len(d) : d[i].cat = cat
    THEN CHOOSE i \in 1..Len(d) : d[i].cat = cat
    ELSE 0

\* category_indices[cat].append(row) on a defaultdict(list)
AppendIndex(d, cat, row) ==
    IF KeyPos(d, cat) = 0
    THEN Append(d, [cat |-> cat, indices |-> <<row>>])
    ELSE [d EXCEPT ![KeyPos(d, cat)].indices = Append(@, row)]

RECURSIVE GroupIndices(_, _)
GroupIndices(prompt_to_category, n) ==
    IF n = 0 THEN <<>>
    ELSE AppendIndex(GroupIndices(prompt_to_category, n - 1),
                     prompt_to_category[n], n)

\* the category_indices that precompute_text_features returns
precompute_text_features(categories) ==
    LET prompt_to_category == FlattenCategories(categories, Len(categories))
    IN  GroupIndices(prompt_to_category, Len(prompt_to_category))

----------------------------------------------------------------------------
(* classify_image: ensemble scoring *)

RECURSIVE Sum(_)
Sum(s) == IF s = <<>> THEN 0 ELSE Head(s) + Sum(Tail(s))

\* tensor.mean() of a non-empty tensor
Mean(s) == Sum(s) \div Len(s)

\* tensor[indices]
Gather(t, indices) == [j \in 1..Len(indices) |-> t[indices[j]]]

RemoveAt(s, i) == SubSeq(s, 1, i - 1) \o SubSeq(s, i + 1, Len(s))

\* position of the first largest element of a non-empty sequence
ArgMax(s) ==
    CHOOSE i \in 1..Len(s) :
        /\ \A j \in 1..Len(s) : s[j] <= s[i]
        /\ \A j \in 1..(i - 1) : s[j] < s[i]

\* tensor.topk(k).values: the k largest values, descending; k <= Len(s)
RECURSIVE TopK(_, _)
TopK(s, k) ==
    IF k = 0 THEN <<>>
    ELSE <<s[ArgMax(s)]>> \o TopK(RemoveAt(s, ArgMax(s)), k - 1)

\* fault variant: top-k taken over every row, not the category's own rows
category_score_all_rows(sims, indices, top_k) ==
    LET k == Min(top_k, Len(indices))
        top_scores == TopK(sims, k)
    IN  Mean(top_scores)

\* the loop body of lines 100-103
category_score(sims, indices, top_k) ==
    LET cat_similarities == Gather(sims, indices)
        k == Min(top_k, Len(indices))
        top_scores == TopK(cat_similarities, k)
    IN  Mean(top_scores)

\* category_scores after the first n iterations of the loop of lines 99-103,
\* an ordered dict in category_indices order
RECURSIVE CategoryScores(_, _, _, _)
CategoryScores(sims, cat_indices, top_k, n) ==
    IF n = 0 THEN <<>>
    ELSE Append(CategoryScores(sims, cat_indices, top_k, n - 1),
                [cat |-> cat_indices[n].cat,
                 score |-> category_score(sims, cat_indices[n].indices, top_k)])

\* fault variant: a later key wins on equal values
RECURSIVE max_key_last_wins(_, _)
max_key_last_wins(scores, n) ==
    IF n = 1 THEN 1
    ELSE LET best == max_key_last_wins(scores, n - 1)
         IN  IF scores[n].score >= scores[best].score THEN n ELSE best

\* max(d, key=d.get) scanning the first n keys: a later key wins only if
\* its value is strictly greater
RECURSIVE max_key(_, _)
max_key(scores, n) ==
    IF n = 1 THEN 1
    ELSE LET best == max_key(scores, n - 1)
         IN  IF scores[n].score > scores[best].score THEN n ELSE best

Failure(msg) ==
    [category |-> None, confidence |-> None, scores |-> None, error |-> Some(msg)]

\* decode, infer: None if the step returned, Some(str(e)) if it raised e
classify_image(decode, infer, sims, cat_indices, top_k) ==
    IF decode # None THEN Failure(decode[1])
    ELSE IF infer # None THEN Failure(infer[1])
    ELSE IF cat_indices = <<>> THEN Failure("max() arg is an empty sequence")
    ELSE LET category_scores == CategoryScores(sims, cat_indices, top_k, Len(cat_indices))
             best == max_key(category_scores, Len(category_scores))
         IN  [category |-> Some(category_scores[best].cat),
              confidence |-> Some(category_scores[best].score),
              scores |-> Some(category_scores),
              error |-> None]

\* did the body of classify_image raise (lines 79 and 109)
Raised(decode, infer, cat_indices) ==
    decode # None \/ infer # None \/ cat_indices = <<>>

\* Python truthiness of the error value: None and "" are falsy
Truthy(error) == error # None /\ error[1] # ""

\* fault variant: a failed image is appended to results as well
record_outcome_in_both(res, errs, image_path, o) ==
    IF Truthy(o.error)
    THEN [results |-> Append(res, [path |-> image_path, category |-> o.category,
                                   confidence |-> o.confidence, scores |-> o.scores]),
          errors |-> Append(errs, [path |-> image_path, error |-> o.error[1]])]
    ELSE [results |-> Append(res, [path |-> image_path, category |-> o.category,
                                   confidence |-> o.confidence, scores |-> o.scores]),
          errors |-> errs]

\* lines 152-160
record_outcome(res, errs, image_path, o) ==
    IF Truthy(o.error)
    THEN [results |-> res,
          errors |-> Append(errs, [path |-> image_path, error |-> o.error[1]])]
    ELSE [results |-> Append(res, [path |-> image_path, category |-> o.category,
                                   confidence |-> o.confidence, scores |-> o.scores]),
          errors |-> errs]

----------------------------------------------------------------------------
(* The environment's image embeddings *)

\* every similarity vector over n rows
AnySimilarities(image_path, n) == [1..n -> SimVals]

\* fixed stub embeddings: a file's content decides its similarity vector
StubSimilarities(image_path, n) ==
    {[r \in 1..n |-> IF (r % 2 = 1) = (image_path = "a.jpg") THEN Unit ELSE 0]}

NumRows(cat_indices) ==
    Sum([i \in 1..Len(cat_indices) |-> Len(cat_indices[i].indices)])

Raises == {None} \cup {Some(m) : m \in ExcMsgs}

----------------------------------------------------------------------------
(* The process *)

Init ==
    /\ stdin \in Documents
    /\ caps \in Capabilities
    /\ pc = "main"
    /\ out = <<>>
    /\ exitCode = None
    /\ exc = "none"
    /\ device = None
    /\ category_indices = <<>>
    /\ idx = 0
    /\ results = <<>>
    /\ errors = <<>>
    /\ all_similarities = <<>>
    /\ outcome = None
    /\ raised = <<>>

Exit(code, e) ==
    /\ pc' = "exited"
    /\ exitCode' = Some(code)
    /\ exc' = e

classify_locals ==
    <<device, category_indices, idx, results, errors, all_similarities,
      outcome, raised>>

\* lines 202-210: the text is read (an undecodable text, with the
\* surrogateescape handler) and json.loads raises JSONDecodeError
main_json_error ==
    /\ pc = "main"
    /\ stdin.kind = "malformed"
    /\ \E msg \in JsonErrorMsgs :
          out' = send_response(out, [status |-> "error",
                                     error |-> <<"Invalid JSON input: ", msg>>])
    /\ Exit(1, "JSONDecodeError")
    /\ UNCHANGED <<stdin, caps, classify_locals>>

\* the exceptions that lines 203-204 can raise on the input and that
\* `except json.JSONDecodeError` does not catch: from sys.stdin.read under
\* the strict error handler, from json.loads once the text is read
UncaughtReadError(doc) ==
    (IF doc.text = "undecodable" THEN {"UnicodeDecodeError"} ELSE {})
        \cup (IF doc.kind = "deep" THEN {"RecursionError"} ELSE {})
        \cup (IF doc.kind = "huge_int" THEN {"ValueError"} ELSE {})

\* lines 203-204: sys.stdin.read or json.loads raises an exception that is
\* no JSONDecodeError; nothing catches it, nothing is printed, the
\* interpreter exits 1.  The error handler of sys.stdin is the host's
\* (strict, or surrogateescape under the C/POSIX locale), so an undecodable
\* text takes this step or the step of its kind.
main_read_uncaught ==
    /\ pc = "main"
    /\ \E e \in UncaughtReadError(stdin) : Exit(1, e)
    /\ UNCHANGED <<stdin, caps, out, classify_locals>>

\* line 212: request.get on a value that is no dict raises AttributeError,
\* which nothing catches
main_not_object ==
    /\ pc = "main"
    /\ stdin.kind = "nonobject"
    /\ Exit(1, "AttributeError")
    /\ UNCHANGED <<stdin, caps, out, classify_locals>>

Command == Get(stdin.command, "classify")

\* handle_check, lines 174-192: the checks dict, with the version strings
\* of the installed libraries (both inner imports succeed: the modules were
\* imported at lines 13-14)
handle_check_checks(c, torch_version, transformers_version, pillow_version) ==
    [torch |-> TRUE, transformers |-> TRUE, pillow |-> TRUE,
     device |-> get_device(c),
     torch_version |-> torch_version,
     transformers_version |-> transformers_version,
     pillow_version |-> pillow_version]

\* lines 216-217 and handle_check
main_check ==
    /\ pc = "main"
    /\ stdin.kind = "object"
    /\ Command = "check"
    /\ \E tv \in Versions, trv \in Versions, pv \in Versions :
          out' = send_response(out, [status |-> "success",
                                     checks |-> handle_check_checks(caps, tv, trv, pv)])
    /\ Exit(0, "none")
    /\ UNCHANGED <<stdin, caps, classify_locals>>

\* lines 218-223
main_unknown ==
    /\ pc = "main"
    /\ stdin.kind = "object"
    /\ Command \notin {"classify", "check"}
    /\ out' = send_response(out, [status |-> "error",
                                  error |-> <<"Unknown command: ", Command>>])
    /\ Exit(1, "UnknownCommand")
    /\ UNCHANGED <<stdin, caps, classify_locals>>

\* lines 214-215 and handle_classify up to the load_model call
main_classify ==
    /\ pc = "main"
    /\ stdin.kind = "object"
    /\ Command = "classify"
    /\ device' = Some(get_device(caps))
    /\ out' = send_response(out, [type |-> "status",
                                  message |-> <<"Loading model on ", get_device(caps), "...">>])
    /\ pc' = "load_model"
    /\ UNCHANGED <<stdin, caps, exitCode, exc, category_indices, idx, results,
                   errors, all_similarities, outcome, raised>>

\* lines 126-127, 135: load_model returns
load_model_ok ==
    /\ pc = "load_model"
    /\ out' = send_response(out, [type |-> "status",
                                  message |-> <<"Precomputing text features...">>])
    /\ pc' = "precompute"
    /\ UNCHANGED <<stdin, caps, exitCode, exc, classify_locals>>

\* lines 128-133: load_model raises; handle_classify returns and main ends
load_model_fail ==
    /\ pc = "load_model"
    /\ \E m \in ExcMsgs :
        out' = send_response(out, [status |-> "error",
                                   error |-> <<"Failed to load model: ", m>>])
    /\ Exit(0, "ModelLoad")
    /\ UNCHANGED <<stdin, caps, classify_locals>>

\* lines 137-143: precompute_text_features returns
precompute_ok ==
    /\ pc = "precompute"
    /\ category_indices' = precompute_text_features(stdin.categories)
    /\ results' = <<>>
    /\ errors' = <<>>
    /\ idx' = 0
    /\ pc' = "loop"
    /\ UNCHANGED <<stdin, caps, out, exitCode, exc, device, all_similarities,
                   outcome, raised>>

\* lines 137-139: the processor or get_text_features raises inside
\* precompute_text_features; nothing catches it, the interpreter exits 1
precompute_fail ==
    /\ pc = "precompute"
    /\ Exit(1, "IndexBuild")
    /\ UNCHANGED <<stdin, caps, out, classify_locals>>

\* lines 145-146
loop_progress ==
    /\ pc = "loop"
    /\ idx < Len(stdin.images)
    /\ out' = send_progress(out, idx + 1, Len(stdin.images))
    /\ pc' = "classify"
    /\ UNCHANGED <<stdin, caps, exitCode, exc, classify_locals>>

\* lines 148-160: one classify_image call and the recording of its outcome
ClassifyStep(decode, infer, sims) ==
    /\ pc = "classify"
    /\ decode # None => infer = None
    /\ \E o \in {classify_image(decode, infer, sims, category_indices,
                                Get(stdin.topK, DefaultTopK))} :
       \E r \in {record_outcome(results, errors, stdin.images[idx + 1], o)} :
           /\ outcome' = Some(o)
           /\ all_similarities' =
                 IF decode = None /\ infer = None THEN sims ELSE <<>>
           /\ results' = r.results
           /\ errors' = r.errors
           /\ raised' = Append(raised, Raised(decode, infer, category_indices))
    /\ idx' = idx + 1
    /\ pc' = "loop"
    /\ UNCHANGED <<stdin, caps, out, exitCode, exc, device, category_indices>>

loop_classify ==
    /\ pc = "classify"
    /\ \E decode \in Raises, infer \in Raises :
       \E sims \in StubSimilarities(stdin.images[idx + 1], NumRows(category_indices)) :
          ClassifyStep(decode, infer, sims)

\* lines 162-167, then main returns
finish ==
    /\ pc = "loop"
    /\ idx = Len(stdin.images)
    /\ out' = send_response(out, [status |-> "success", device |-> device[1],
                                  results |-> results, errors |-> errors])
    /\ Exit(0, "none")
    /\ UNCHANGED <<stdin, caps, classify_locals>>

Next ==
    \/ main_json_error
    \/ main_read_uncaught
    \/ main_not_object
    \/ main_check
    \/ main_unknown
    \/ main_classify
    \/ load_model_ok
    \/ load_model_fail
    \/ precompute_ok
    \/ precompute_fail
    \/ loop_progress
    \/ loop_classify
    \/ finish

Spec == Init /\ [][Next]_vars

----------------------------------------------------------------------------
(* Scoring runs: handle_classify stands at the classify_image call of the   *)
(* only image of a request, decode and inference return, and the image      *)
(* embedding is any vector.                                                 *)

InitScore ==
    /\ stdin \in ScoreDocs
    /\ caps = [mps |-> FALSE, cuda |-> FALSE]
    /\ pc = "classify"
    /\ device = Some(get_device(caps))
    /\ out = send_progress(
                send_response(
                    send_response(<<>>,
                        [type |-> "status",
                         message |-> <<"Loading model on ", get_device(caps), "...">>]),
                    [type |-> "status", message |-> <<"Precomputing text features...">>]),
                1, 1)
    /\ exitCode = None
    /\ exc = "none"
    /\ category_indices = precompute_text_features(stdin.categories)
    /\ idx = 0
    /\ results = <<>>
    /\ errors = <<>>
    /\ all_similarities = <<>>
    /\ outcome = None
    /\ raised = <<>>

\* decode and inference return
score_image ==
    /\ pc = "classify"
    /\ \E sims \in AnySimilarities(stdin.images[idx + 1], NumRows(category_indices)) :
          ClassifyStep(None, None, sims)

NextScore ==
    \/ score_image

SpecScore == InitScore /\ [][NextScore]_vars

----------------------------------------------------------------------------
(* Vocabulary of the properties *)

IsProgress(m) == "type" \in DOMAIN m /\ m.type = "progress"

IsStatus(m) == "type" \in DOMAIN m /\ m.type = "status"

IsFinal(m) == "status" \in DOMAIN m

IsErrorResponse(m) == IsFinal(m) /\ m.status = "error" /\ "error" \in DOMAIN m

IsClassifySuccess(m) == IsFinal(m) /\ m.status = "success" /\ "results" \in DOMAIN m

ProgressOf(o) == SelectSeq(o, IsProgress)

ExpectedProgress(m, n) ==
    [i \in 1..m |-> [type |-> "progress", current |-> i, total |-> n]]

PathsOf(list) == [i \in 1..Len(list) |-> list[i].path]

\* the elements of s at the positions of R among 1..n, in order
RECURSIVE PickAt(_, _, _)
PickAt(s, R, n) ==
    IF n = 0 THEN <<>>
    ELSE IF n \in R THEN Append(PickAt(s, R, n - 1), s[n])
    ELSE PickAt(s, R, n - 1)

NumImages == Len(stdin.images)

IsClassifyRequest == stdin.kind = "object" /\ Command = "classify"

\* the input is not well-formed JSON (RFC 8259)
NotWellFormedJson == stdin.text # "plain" \/ stdin.kind \in NonJsonKinds

Exited == pc = "exited"

\* the run passed model load and index build and ran to its end
CompletedClassify == Exited /\ IsClassifyRequest /\ exc = "none"

LastOut == out[Len(out)]

RaisedPositions == {i \in 1..Len(raised) : raised[i]}

\* rows of category c by the declaration alone
RowsBefore(categories, c) == Sum([j \in 1..(c - 1) |-> Len(categories[j])])

OwnRows(categories, c) ==
    (RowsBefore(categories, c) + 1)..(RowsBefore(categories, c) + Len(categories[c]))

RECURSIVE SetSum(_, _)
SetSum(f, S) ==
    IF S = {} THEN 0
    ELSE LET x == CHOOSE y \in S : TRUE IN f[x] + SetSum(f, S \ {x})

HasEmptyCategory ==
    \E c \in 1..Len(stdin.categories) : stdin.categories[c] = <<>>

HasPromptedCategory ==
    \E c \in 1..Len(stdin.categories) : stdin.categories[c] # <<>>

ScoredOk == outcome # None /\ outcome[1].error = None

----------------------------------------------------------------------------
(* Properties *)

\* C1: in every success response of a classify request, results and errors
\* list their paths in input order and the input positions are split
\* between the two lists, each position in exactly one of them.
C1_OrderAndPartition ==
    \A i \in 1..Len(out) :
        IsClassifySuccess(out[i]) =>
            \E R \in SUBSET (1..NumImages) :
                /\ PathsOf(out[i].results) = PickAt(stdin.images, R, NumImages)
                /\ PathsOf(out[i].errors) =
                       PickAt(stdin.images, (1..NumImages) \ R, NumImages)

C1_Witness ==
    /\ CompletedClassify
    /\ NumImages >= 2
    /\ IsClassifySuccess(LastOut)
    /\ LastOut.results # <<>>
    /\ LastOut.errors # <<>>

\* C2 as claimed: once model and index are ready, every image is scored
\* whatever failed before it, the run ends with a success response, and
\* each image whose decode or inference raised is reported in errors with
\* its path and a message.
C2_FailuresIsolatedInErrors ==
    /\ pc \in {"loop", "classify"} =>
          PathsOf(errors) = PickAt(stdin.images, RaisedPositions, Len(raised))
    /\ CompletedClassify =>
          /\ Len(raised) = NumImages
          /\ IsClassifySuccess(LastOut)
          /\ PathsOf(LastOut.errors) =
                 PickAt(stdin.images, RaisedPositions, NumImages)
          /\ \A j \in 1..Len(LastOut.errors) : LastOut.errors[j].error # ""

\* C3: with model and index ready, the progress messages are exactly
\* (1,n), (2,n), ..., in order; message i is printed after outcome i-1 was
\* recorded and before image i is scored; all precede the single final
\* response; with no image there is no progress message and the response
\* is a success with empty results and errors.
C3_ProgressSequence ==
    /\ pc = "loop" =>
          /\ ProgressOf(out) = ExpectedProgress(idx, NumImages)
          /\ Len(results) + Len(errors) = idx
          /\ \A i \in 1..Len(out) : ~IsFinal(out[i])
    /\ pc = "classify" =>
          /\ ProgressOf(out) = ExpectedProgress(idx + 1, NumImages)
          /\ IsProgress(LastOut)
          /\ Len(results) + Len(errors) = idx
          /\ \A i \in 1..Len(out) : ~IsFinal(out[i])
    /\ CompletedClassify =>
          /\ ProgressOf(out) = ExpectedProgress(NumImages, NumImages)
          /\ IsClassifySuccess(LastOut)
          /\ \A i \in 1..(Len(out) - 1) : ~IsFinal(out[i])
          /\ NumImages = 0 => LastOut.results = <<>> /\ LastOut.errors = <<>>

C3_Witness ==
    /\ CompletedClassify
    /\ NumImages >= 2
    /\ Len(ProgressOf(out)) = NumImages
    /\ LastOut.errors # <<>>

\* C4 as claimed: on input that is not well-formed JSON the worker prints
\* exactly one message, an error response, exits non-zero, and never prints
\* a status or progress message.
C4_MalformedInput ==
    NotWellFormedJson =>
        /\ \A i \in 1..Len(out) : ~IsStatus(out[i]) /\ ~IsProgress(out[i])
        /\ Exited =>
              /\ Len(out) = 1
              /\ IsErrorResponse(out[1])
              /\ exitCode # Some(0)

\* C5 as claimed, for documents of plain text: the exit code is non-zero
\* exactly when the request document is malformed (not JSON, or no request
\* object) or its command is unknown.
C5_ExitCode ==
    (Exited /\ stdin.text = "plain") =>
        (exitCode # Some(0)
            <=> (stdin.kind # "object" \/ Command \notin {"classify", "check"}))

\* C6 as claimed: after a model-load failure or an index-build failure the
\* last message is an error response, and no progress message and no
\* results/errors lists were printed.
C6_FatalFailureResponse ==
    (Exited /\ exc \in {"ModelLoad", "IndexBuild"}) =>
        /\ out # <<>>
        /\ IsErrorResponse(LastOut)
        /\ \A i \in 1..Len(out) : ~IsProgress(out[i]) /\ ~IsClassifySuccess(out[i])

\* C7: each category's score is the mean of the k = min(top_k, number of
\* its prompts) highest similarities among its own rows; so with top_k at
\* or above the prompt count the score is the mean of all its rows.
C7_TopKMean ==
    ScoredOk =>
        LET scores == outcome[1].scores[1]
            top_k == Get(stdin.topK, DefaultTopK)
        IN  \A i \in 1..Len(scores) :
              LET c == scores[i].cat
                  own == OwnRows(stdin.categories, c)
                  k == Min(top_k, Len(stdin.categories[c]))
              IN  /\ \E S \in SUBSET own :
                        /\ Cardinality(S) = k
                        /\ \A a \in S, b \in own \ S :
                              all_similarities[a] >= all_similarities[b]
                        /\ scores[i].score * k = SetSum(all_similarities, S)
                  /\ top_k >= Cardinality(own) =>
                        scores[i].score * Cardinality(own)
                            = SetSum(all_similarities, own)

C7_Witness ==
    /\ ScoredOk
    /\ Len(stdin.categories) = 2
    /\ Get(stdin.topK, DefaultTopK) = 1
    /\ Len(stdin.categories[1]) = 2
    /\ Len(stdin.categories[2]) = 1
    /\ all_similarities = <<0, 0 - Unit, Unit>>
    /\ outcome[1].scores[1][1].score = 0

\* C8: the predicted category has the maximum score, the confidence is
\* that score, and among categories with the maximum score the one
\* declared first is predicted.
C8_ArgMaxFirstDeclared ==
    ScoredOk =>
        LET scores == outcome[1].scores[1]
            best == outcome[1].category[1]
        IN  /\ \E i \in 1..Len(scores) :
                  /\ scores[i].cat = best
                  /\ outcome[1].confidence = Some(scores[i].score)
                  /\ \A j \in 1..Len(scores) :
                        /\ scores[j].score <= scores[i].score
                        /\ scores[j].score = scores[i].score => best <= scores[j].cat

C8_Witness ==
    /\ ScoredOk
    /\ Len(outcome[1].scores[1]) = 2
    /\ outcome[1].scores[1][1].score = outcome[1].scores[1][2].score
    /\ outcome[1].category = Some(1)
    /\ Len(stdin.categories[1]) = 2
    /\ all_similarities[1] # all_similarities[2]

\* C9 as claimed, for requests that list at least one image and declare a
\* category that has prompts beside one that has none: the request is
\* rejected, that is, no image is scored, no success response is printed,
\* and the run ends with an error response.  (A run that the uncaught
\* index-build exception ended is left aside here: C6 is about its missing
\* response.)
C9_EmptyCategoryRejected ==
    (IsClassifyRequest /\ HasEmptyCategory /\ HasPromptedCategory /\ NumImages >= 1) =>
        /\ outcome = None
        /\ \A i \in 1..Len(out) : ~IsClassifySuccess(out[i])
        /\ (Exited /\ exc # "IndexBuild") => IsErrorResponse(LastOut)

\* C10 as claimed: an image whose decode or inference raised is never in
\* results; every entry of results has a category of the request, a
\* non-null confidence equal to scores[category], and non-null scores.
C10_ResultsAreCompleted ==
    /\ Len(results) + Cardinality(RaisedPositions) = Len(raised)
    /\ \A i \in 1..Len(results) :
          LET r == results[i]
          IN  /\ r.category # None
              /\ r.confidence # None
              /\ r.scores # None
              /\ r.category[1] \in 1..Len(stdin.categories)
              /\ \E j \in 1..Len(r.scores[1]) :
                    /\ r.scores[1][j].cat = r.category[1]
                    /\ r.scores[1][j].score = r.confidence[1]

====
